---- MODULE Spec2Model ----
(***************************************************************************)
(* Model of bettersearch/src/database/parse.py: the extension dispatch of  *)
(* parse_file_contents and its three backends _parse_txt, _parse_ffmpeg    *)
(* and _parse_pdf.  The external collaborators (file system, ffprobe,      *)
(* PIL, pymupdf) are inputs: each call reads one "world" that says what    *)
(* the collaborators answer for the given path.                            *)
(*                                                                         *)
(* Python strings are sequences of one-character strings, bytes are        *)
(* sequences of integers, and every Python value carries a tag.            *)
(***************************************************************************)
EXTENDS Integers, Sequences, FiniteSets, TLC

VARIABLES parsable_exts, pc, file_path, world, result, raised, trace, open_handles

vars == <<parsable_exts, pc, file_path, world, result, raised, trace, open_handles>>

-----------------------------------------------------------------------------
(* Bounds of the exploration *)

MaxPathLen == 3

MaxContentLen == 3

MaxStreams == 2

MaxMissingFields == 1

-----------------------------------------------------------------------------
(* Python values *)

None == [tag |-> "None", val |-> <<>>]

Str(s) == [tag |-> "str", val |-> s]

\* The value of an int is held in a one-element sequence.
PyInt(n) == [tag |-> "int", val |-> <<n>>]

Bytes(b) == [tag |-> "bytes", val |-> b]

Tuple(t) == [tag |-> "tuple", val |-> t]

Dict(d) == [tag |-> "dict", val |-> d]

Error == [tag |-> "error", val |-> <<>>]

\* dict.get(key): the value, or None when the key is missing (a defaultdict
\* does not apply its factory on get).
Get(d, k) == IF k \in DOMAIN d THEN d[k] ELSE None

\* defaultdict(str, d)[key]: the value, or the empty string.
DefaultStrItem(d, k) == IF k \in DOMAIN d THEN d[k] ELSE Str(<<>>)

RECURSIVE Digits(_)
Digits(n) ==
    IF n < 10
    THEN <<SubSeq(<<"0", "1", "2", "3", "4", "5", "6", "7", "8", "9">>, n + 1, n + 1)[1]>>
    ELSE Digits(n \div 10) \o Digits(n % 10)

\* str(obj) of one argument.
PyStr(v) ==
    CASE v.tag = "None" -> Str(<<"N", "o", "n", "e">>)
      [] v.tag = "int" -> Str(Digits(v.val[1]))
      [] v.tag = "str" -> v
      [] OTHER -> Str(<<"?">>)

\* sep.join(list of str)
RECURSIVE Join(_, _)
Join(sep, parts) ==
    IF parts = <<>> THEN <<>>
    ELSE IF Len(parts) = 1 THEN parts[1]
    ELSE parts[1] \o sep \o Join(sep, Tail(parts))

-----------------------------------------------------------------------------
(* UTF-8 decoding and text-mode newline translation, as open(..., 'r',      *)
(* encoding='utf-8').read() performs them                                   *)

IsContinuation(b) == b >= 128 /\ b <= 191

IsLead2(b) == b >= 194 /\ b <= 223

\* Code points of a byte sequence made of one- and two-byte forms; <<-1>> is
\* put where the bytes are not valid UTF-8.
RECURSIVE CodePoints(_)
CodePoints(b) ==
    IF b = <<>> THEN <<>>
    ELSE IF b[1] < 128 THEN <<b[1]>> \o CodePoints(Tail(b))
    ELSE IF IsLead2(b[1]) /\ Len(b) >= 2 /\ IsContinuation(b[2])
         THEN <<(b[1] - 192) * 64 + (b[2] - 128)>> \o CodePoints(Tail(Tail(b)))
    ELSE <<-1>>

ValidUtf8(b) == LET cps == CodePoints(b) IN \A i \in 1..Len(cps) : cps[i] >= 0

\* The characters the model's alphabets can produce.
Chr(cp) ==
    CASE cp = 10 -> "\n"
      [] cp = 13 -> "\r"
      [] cp = 54 -> "6"
      [] cp = 65 -> "A"
      [] cp = 233 -> "e-acute"
      [] OTHER -> "?"

Decode(b) == LET cps == CodePoints(b) IN [i \in 1..Len(cps) |-> Chr(cps[i])]

\* newline=None on input: "\r\n" and a lone "\r" are both read as "\n".
RECURSIVE UniversalNewlines(_)
UniversalNewlines(s) ==
    IF s = <<>> THEN <<>>
    ELSE IF s[1] = "\r" /\ Len(s) >= 2 /\ s[2] = "\n"
         THEN <<"\n">> \o UniversalNewlines(Tail(Tail(s)))
    ELSE IF s[1] = "\r" THEN <<"\n">> \o UniversalNewlines(Tail(s))
    ELSE <<s[1]>> \o UniversalNewlines(Tail(s))

-----------------------------------------------------------------------------
(* pathlib.Path(file_path).suffix (PurePosixPath) *)

RECURSIVE SplitSlash(_)
SplitSlash(s) ==
    IF s = <<>> THEN << <<>> >>
    ELSE LET rest == SplitSlash(Tail(s))
         IN  IF Head(s) = "/" THEN << <<>> >> \o rest
             ELSE << <<Head(s)>> \o Head(rest) >> \o Tail(rest)

\* The path's components: empty and "." components are dropped.
PathParts(s) == SelectSeq(SplitSlash(s), LAMBDA c : c # <<>> /\ c # <<".">>)

PathName(s) ==
    LET parts == PathParts(s)
    IN  IF parts = <<>> THEN <<>> ELSE parts[Len(parts)]

\* name.rfind('.'), as a 1-based index, 0 when there is no dot.
RFindDot(name) ==
    LET dots == {i \in 1..Len(name) : name[i] = "."}
    IN  IF dots = {} THEN 0 ELSE CHOOSE i \in dots : \A j \in dots : j <= i

suffix(s) ==
    LET name == PathName(s)
        i == RFindDot(name)
    IN  IF 1 < i /\ i < Len(name) THEN SubSeq(name, i, Len(name)) ELSE <<>>

-----------------------------------------------------------------------------
(* The extension registry (constants.parsable_exts) and util.get_all_exts *)

Categories == {"mupdf", "ffmpeg_audio", "ffmpeg_image", "ffmpeg_video", "text"}

Chars == {"/", ".", "a", "A"}

\* The extensions a registry of the model may hold.
ExtUniverse == {<<".", "a">>, <<".", "A">>}

Registries == [Categories -> SUBSET ExtUniverse]

\* The union of every category's extensions.
get_all_exts(exts) == UNION {exts[c] : c \in DOMAIN exts}

RECURSIVE SeqsUpTo(_, _)
SeqsUpTo(S, n) ==
    IF n = 0 THEN {<<>>}
    ELSE LET shorter == SeqsUpTo(S, n - 1)
         IN  shorter \cup {Append(s, x) : s \in shorter, x \in S}

Paths == SeqsUpTo(Chars, MaxPathLen)

\* The arguments a caller passes: a str, or a value that is not a path.
Args == {Str(p) : p \in Paths} \cup {None}

-----------------------------------------------------------------------------
(* What the external collaborators answer *)

\* open(file_path, 'r', encoding='utf-8'): whether the file opens, its bytes.
TextFile(opens, bytes) == [opens |-> opens, bytes |-> bytes]

ByteAlphabet == {65, 13, 10, 195, 169}

\* fitz.open / doc.needs_pass / pymupdf4llm.to_markdown(path, margins=m):
\* the converter's answer is a function of the margins it is given.
MarginSettings == {"0", "default"}

Markdowns == {Error, Str(<<"#">>), Str(<<>>)}

Document(opens, needs_pass, to_markdown) ==
    [opens |-> opens, needs_pass |-> needs_pass, to_markdown |-> to_markdown]

\* ffprobe: whether execute() and json.loads succeed, the top-level keys of
\* the JSON object besides "streams", and the "streams" list (absent: Error).
Probe(runs, other_keys, streams) ==
    [runs |-> runs, other_keys |-> other_keys, streams |-> streams]

StreamKeys == {"title", "album", "genre", "duration", "frame_rate", "director", "width", "height"}

FullStream ==
    [k \in StreamKeys |->
        CASE k = "title" -> Str(<<"T">>)
          [] k = "album" -> Str(<<"L">>)
          [] k = "genre" -> Str(<<"G">>)
          [] k = "duration" -> Str(<<"9">>)
          [] k = "frame_rate" -> Str(<<"F">>)
          [] k = "director" -> Str(<<"R">>)
          [] k = "width" -> PyInt(64)
          [] OTHER -> PyInt(48)]

Restrict(f, S) == [k \in S |-> f[k]]

\* Stream records lacking at most MaxMissingFields of the fields.
StreamRecords ==
    {Restrict(FullStream, StreamKeys \ miss) :
        miss \in {m \in SUBSET StreamKeys : Cardinality(m) <= MaxMissingFields}}

\* Stream lists: the first record varies, the ones after it are full records.
StreamLists ==
    {<<>>} \cup
    {<<r>> \o [i \in 1..n |-> FullStream] : r \in StreamRecords, n \in 0..(MaxStreams - 1)}

\* Image.open, _getexif() (None when the image has no EXIF), the EXIF tags by
\* name, and the answer of util.convert_gps_info_to_lat_lon_alt.
Exif(opens, has_exif, tags, gps) ==
    [opens |-> opens, has_exif |-> has_exif, tags |-> tags, gps |-> gps]

Codecs == {<<"u", "t", "f", "-", "8">>}

ExifTagValues ==
    [ImageWidth : {None, PyInt(64), Bytes(<<54>>)},
     ImageLength : {None, PyInt(48), Str(<<"u", "t", "f", "-", "8">>)},
     GPSInfo : {None, Tuple(<<>>)},
     Model : {None, Str(<<"M">>)},
     DateTime : {None, Str(<<"D">>)}]

\* The tag dictionary of a choice of tag values: a tag valued None is missing.
TagDict(choice) == Restrict(choice, {k \in DOMAIN choice : choice[k].tag # "None"})

GpsAnswers == {Error, [tag |-> "latlonalt", val |-> <<>>]}

\* The world in which every collaborator fails at its first call.
NoWorld ==
    [text |-> TextFile(FALSE, <<>>),
     doc |-> Document(FALSE, FALSE, [m \in MarginSettings |-> Error]),
     probe |-> Probe(FALSE, {}, Error),
     exif |-> Exif(FALSE, FALSE, <<>>, Error)]

\* The answers explored: every text file up to MaxContentLen bytes, etc.
TextFiles ==
    {TextFile(FALSE, <<>>)} \cup {TextFile(TRUE, b) : b \in SeqsUpTo(ByteAlphabet, MaxContentLen)}

Documents ==
    {Document(FALSE, FALSE, [m \in MarginSettings |-> Error])} \cup
    {Document(TRUE, np, md) : np \in BOOLEAN, md \in [MarginSettings -> Markdowns]}

Probes ==
    {Probe(FALSE, {}, Error)} \cup
    {Probe(TRUE, ok, Error) : ok \in SUBSET {"format"}} \cup
    {Probe(TRUE, ok, Tuple(sl)) : ok \in SUBSET {"format"}, sl \in StreamLists}

Exifs ==
    {Exif(FALSE, FALSE, <<>>, Error), Exif(TRUE, FALSE, <<>>, Error)} \cup
    {Exif(TRUE, TRUE, TagDict(c), g) : c \in ExifTagValues, g \in GpsAnswers}

\* The collaborator answers one specification explores.
AllAnswers == [texts |-> TextFiles, docs |-> Documents, probes |-> Probes, exifs |-> Exifs]

\* A few answers of each collaborator, for the specification that explores
\* every registry.
SampleAnswers ==
    [texts |-> {TextFile(FALSE, <<>>), TextFile(TRUE, <<65>>)},
     docs |-> {Document(TRUE, TRUE, [m \in MarginSettings |-> Str(<<"#">>)]),
               Document(TRUE, FALSE, [m \in MarginSettings |-> Str(<<"#">>)])},
     probes |-> {Probe(FALSE, {}, Error), Probe(TRUE, {}, Tuple(<<FullStream>>))},
     exifs |-> {Exif(FALSE, FALSE, <<>>, Error),
                Exif(TRUE, TRUE, [ImageWidth |-> PyInt(64), ImageLength |-> PyInt(48)], Error)}]

-----------------------------------------------------------------------------
(* Outcomes of a (sub)call: whether an exception is propagating, the value  *)
(* returned, the calls and log records made, the handles left open          *)

Returned(v, events, handles) ==
    [exc |-> FALSE, value |-> v, trace |-> events, open |-> handles]

Raised(events, handles) ==
    [exc |-> TRUE, value |-> None, trace |-> events, open |-> handles]

\* The outcome of a call that first makes `events`.
After(events, o) == [o EXCEPT !.trace = events \o @]

-----------------------------------------------------------------------------
(* _parse_txt *)

\* Variant: the file read with newline='' (no newline translation).
parse_txt_untranslated(path, w) ==
    LET file == w.text
    IN  IF ~file.opens
        THEN Raised(<<"open">>, {})
        ELSE IF ~ValidUtf8(file.bytes)
        THEN Raised(<<"open", "read", "close">>, {})
        ELSE Returned(Str(Decode(file.bytes)), <<"open", "read", "close">>, {})

parse_txt(path, w) ==
    LET file == w.text
    IN  IF ~file.opens
        THEN Raised(<<"open">>, {})
        ELSE IF ~ValidUtf8(file.bytes)
        THEN \* read() raises UnicodeDecodeError; the with block closes the file
             Raised(<<"open", "read", "close">>, {})
        ELSE Returned(Str(UniversalNewlines(Decode(file.bytes))),
                      <<"open", "read", "close">>, {})

-----------------------------------------------------------------------------
(* _parse_pdf *)

\* Variant: the converter called without margins=0.
parse_pdf_default_margins(path, w) ==
    LET doc == w.doc
    IN  IF ~doc.opens
        THEN Raised(<<"fitz.open">>, {})
        ELSE IF ~doc.needs_pass
        THEN LET md == doc.to_markdown["default"]
             IN  IF md.tag = "error"
                 THEN Raised(<<"fitz.open", "to_markdown">>, {"document"})
                 ELSE Returned(md, <<"fitz.open", "to_markdown">>, {"document"})
        ELSE Returned(None, <<"fitz.open">>, {"document"})

parse_pdf(path, w) ==
    LET doc == w.doc
    IN  IF ~doc.opens
        THEN Raised(<<"fitz.open">>, {})
        ELSE IF ~doc.needs_pass
        THEN LET md == doc.to_markdown["0"]
             IN  IF md.tag = "error"
                 THEN Raised(<<"fitz.open", "to_markdown">>, {"document"})
                 ELSE Returned(md, <<"fitz.open", "to_markdown">>, {"document"})
        ELSE Returned(None, <<"fitz.open">>, {"document"})

-----------------------------------------------------------------------------
(* _parse_ffmpeg *)

\* itemgetter(*keys)(defaultdict(str, record)): a tuple of the values.
itemgetter(keys, record) ==
    Tuple([i \in 1..Len(keys) |-> DefaultStrItem(record, keys[i])])

\* obj.update({key: value}): only a dict has the method.
Update(obj, key, value) ==
    IF obj.tag = "dict"
    THEN Dict([k \in DOMAIN obj.val \cup {key} |-> IF k = key THEN value ELSE obj.val[k]])
    ELSE Error

\* str(obj, encoding): decodes a bytes object; any other pair of arguments,
\* an unknown codec or undecodable bytes raise.
PyStrDecode(obj, encoding) ==
    IF encoding.tag # "str" THEN Error
    ELSE IF obj.tag # "bytes" THEN Error
    ELSE IF encoding.val \notin Codecs THEN Error
    ELSE IF ~ValidUtf8(obj.val) THEN Error
    ELSE Str(Decode(obj.val))

AudioKeys == <<"title", "album", "genre", "duration">>

VideoKeys == <<"title", "frame_rate", "director", "duration">>

\* Lines 75-87: the audio/video sub-path.
parse_av(path, w) ==
    LET probe == w.probe
        ffprobe_out == probe.other_keys \cup (IF probe.streams.tag = "error" THEN {} ELSE {"streams"})
    IN  IF ~probe.runs
        THEN Raised(<<"ffprobe">>, {})
        ELSE IF probe.streams.tag = "error" \/ probe.streams.val = <<>>
        THEN \* ffprobe_out['streams'][0]: KeyError or IndexError
             Raised(<<"ffprobe">>, {})
        ELSE LET stream == probe.streams.val[1]
                 audio_metadata == itemgetter(AudioKeys, stream)
             IN  IF Cardinality(ffprobe_out) = 1
                 THEN Returned(Tuple(<<None, audio_metadata>>), <<"ffprobe">>, {})
                 ELSE LET video_metadata ==
                              Update(itemgetter(VideoKeys, stream), "dimensions",
                                     Str(Join(<<"x">>, <<PyStr(Get(stream, "width")).val,
                                                        PyStr(Get(stream, "width")).val>>)))
                      IN  IF video_metadata.tag = "error"
                          THEN Raised(<<"ffprobe">>, {})
                          ELSE Returned(Tuple(<<video_metadata, audio_metadata>>),
                                        <<"ffprobe">>, {})

\* Lines 90-104: the image sub-path.
parse_image(path, w) ==
    LET image == w.exif
        exif_tags == image.tags
        width_height == PyStrDecode(Get(exif_tags, "ImageWidth"), Get(exif_tags, "ImageLength"))
    IN  IF ~image.opens
        THEN Raised(<<"Image.open">>, {})
        ELSE IF ~image.has_exif
        THEN \* _getexif() is None: None.items() raises
             Raised(<<"Image.open", "_getexif">>, {"image"})
        ELSE IF width_height.tag = "error"
        THEN Raised(<<"Image.open", "_getexif">>, {"image"})
        ELSE IF image.gps.tag = "error"
        THEN Raised(<<"Image.open", "_getexif", "convert_gps_info_to_lat_lon_alt">>, {"image"})
        ELSE Returned(Dict([dimensions |-> Str(Join(<<"x">>, <<width_height.val>>)),
                            gps_coordinates |-> image.gps,
                            camera_model |-> PyStr(Get(exif_tags, "Model")),
                            date_taken |-> PyStr(Get(exif_tags, "DateTime"))]),
                      <<"Image.open", "_getexif", "convert_gps_info_to_lat_lon_alt">>,
                      {"image"})

parse_ffmpeg(path, ext, w) ==
    IF ext \in parsable_exts["ffmpeg_audio"] \cup parsable_exts["ffmpeg_video"]
    THEN parse_av(path, w)
    ELSE IF ext \in parsable_exts["ffmpeg_image"]
    THEN parse_image(path, w)
    ELSE Returned(None, <<"logging.error">>, {})

-----------------------------------------------------------------------------
(* parse_file_contents *)

\* Variant: a handler that lets the exception through.
TryExceptReraise(o) == o

\* Lines 32, 45-46: try ... except: pass. A suppressed exception makes the
\* function fall off its end, which returns None.
TryExceptPass(o) == IF o.exc THEN [o EXCEPT !.exc = FALSE, !.value = None] ELSE o

Lower(s) == [i \in 1..Len(s) |-> IF s[i] = "A" THEN "a" ELSE s[i]]

\* Variant: the extension lower-cased before it is looked up.
DispatchLower(path, w) ==
    LET ext == Lower(suffix(path))
    IN  IF ext \notin get_all_exts(parsable_exts)
        THEN Returned(None, <<>>, {})
        ELSE IF ext \in parsable_exts["mupdf"]
        THEN After(<<"_parse_pdf">>, parse_pdf(path, w))
        ELSE IF ext \in parsable_exts["ffmpeg_audio"] \cup parsable_exts["ffmpeg_image"]
                        \cup parsable_exts["ffmpeg_video"]
        THEN After(<<"_parse_ffmpeg">>, parse_ffmpeg(path, ext, w))
        ELSE IF ext \in parsable_exts["text"]
        THEN After(<<"_parse_txt">>, parse_txt(path, w))
        ELSE Returned(None, <<"logger.error">>, {})

\* Variant: the text category tested before the media categories.
DispatchTextFirst(path, w) ==
    LET ext == suffix(path)
    IN  IF ext \notin get_all_exts(parsable_exts)
        THEN Returned(None, <<>>, {})
        ELSE IF ext \in parsable_exts["mupdf"]
        THEN After(<<"_parse_pdf">>, parse_pdf(path, w))
        ELSE IF ext \in parsable_exts["text"]
        THEN After(<<"_parse_txt">>, parse_txt(path, w))
        ELSE IF ext \in parsable_exts["ffmpeg_audio"] \cup parsable_exts["ffmpeg_image"]
                        \cup parsable_exts["ffmpeg_video"]
        THEN After(<<"_parse_ffmpeg">>, parse_ffmpeg(path, ext, w))
        ELSE Returned(None, <<"logger.error">>, {})

\* Variant: the media test without the image category.
DispatchNoImage(path, w) ==
    LET ext == suffix(path)
    IN  IF ext \notin get_all_exts(parsable_exts)
        THEN Returned(None, <<>>, {})
        ELSE IF ext \in parsable_exts["mupdf"]
        THEN After(<<"_parse_pdf">>, parse_pdf(path, w))
        ELSE IF ext \in parsable_exts["ffmpeg_audio"] \cup parsable_exts["ffmpeg_video"]
        THEN After(<<"_parse_ffmpeg">>, parse_ffmpeg(path, ext, w))
        ELSE IF ext \in parsable_exts["text"]
        THEN After(<<"_parse_txt">>, parse_txt(path, w))
        ELSE Returned(None, <<"logger.error">>, {})

\* Lines 33-44: the body of the try block, for a str argument.
Dispatch(path, w) ==
    LET ext == suffix(path)
    IN  IF ext \notin get_all_exts(parsable_exts)
        THEN Returned(None, <<>>, {})
        ELSE IF ext \in parsable_exts["mupdf"]
        THEN After(<<"_parse_pdf">>, parse_pdf(path, w))
        ELSE IF ext \in parsable_exts["ffmpeg_audio"] \cup parsable_exts["ffmpeg_image"]
                        \cup parsable_exts["ffmpeg_video"]
        THEN After(<<"_parse_ffmpeg">>, parse_ffmpeg(path, ext, w))
        ELSE IF ext \in parsable_exts["text"]
        THEN After(<<"_parse_txt">>, parse_txt(path, w))
        ELSE Returned(None, <<"logger.error">>, {})

parse_file_contents(arg, w) ==
    TryExceptPass(IF arg.tag # "str"
                  THEN \* pathlib.Path(file_path) raises TypeError
                       Raised(<<>>, {})
                  ELSE Dispatch(arg.val, w))

-----------------------------------------------------------------------------
(* The state machine: a caller that calls parse_file_contents again and     *)
(* again, and the garbage collector that finalizes unreferenced handles     *)

Range(s) == {s[i] : i \in 1..Len(s)}

\* The collaborator a call turns to first, read off the call made in the
\* world where every collaborator fails at once.
Consulted(arg) ==
    LET events == Range(parse_file_contents(arg, NoWorld).trace)
    IN  CASE "open" \in events -> "text"
          [] "fitz.open" \in events -> "doc"
          [] "ffprobe" \in events -> "probe"
          [] "Image.open" \in events -> "exif"
          [] OTHER -> "none"

WorldsFor(collaborator, answers) ==
    CASE collaborator = "text" -> {[NoWorld EXCEPT !.text = t] : t \in answers.texts}
      [] collaborator = "doc" -> {[NoWorld EXCEPT !.doc = d] : d \in answers.docs}
      [] collaborator = "probe" -> {[NoWorld EXCEPT !.probe = p] : p \in answers.probes}
      [] collaborator = "exif" -> {[NoWorld EXCEPT !.exif = x] : x \in answers.exifs}
      [] OTHER -> {NoWorld}

InitWith(registries) ==
    /\ parsable_exts \in registries
    /\ pc = "idle"
    /\ file_path = None
    /\ world = NoWorld
    /\ result = None
    /\ raised = FALSE
    /\ trace = <<>>
    /\ open_handles = {}

\* One whole call of parse_file_contents(file_path).
Call(answers) ==
    /\ pc = "idle"
    /\ \E arg \in Args :
         \E w \in WorldsFor(Consulted(arg), answers) :
            LET o == parse_file_contents(arg, w)
            IN  /\ file_path' = arg
                /\ world' = w
                /\ result' = o.value
                /\ raised' = o.exc
                /\ trace' = o.trace
                /\ open_handles' = open_handles \cup o.open
    /\ pc' = "returned"
    /\ UNCHANGED parsable_exts

\* The caller takes the result and is ready for its next call.
Resume ==
    /\ pc = "returned"
    /\ pc' = "idle"
    /\ file_path' = None
    /\ world' = NoWorld
    /\ result' = None
    /\ raised' = FALSE
    /\ trace' = <<>>
    /\ UNCHANGED <<parsable_exts, open_handles>>

\* The interpreter finalizes the handles nothing refers to any more; when it
\* does so is up to the interpreter.
Finalize ==
    /\ open_handles # {}
    /\ open_handles' = {}
    /\ UNCHANGED <<parsable_exts, pc, file_path, world, result, raised, trace>>

\* Registries with one extension in one category: every backend is reached.
SingleCategoryRegistries ==
    {[c \in Categories |-> IF c = only THEN {<<".", "a">>} ELSE {}] : only \in Categories}

Init == InitWith(Registries)

Next == Call(SampleAnswers) \/ Resume \/ Finalize

Spec == Init /\ [][Next]_vars

InitBackends == InitWith(SingleCategoryRegistries)

NextBackends == Call(AllAnswers) \/ Resume \/ Finalize

SpecBackends == InitBackends /\ [][NextBackends]_vars

-----------------------------------------------------------------------------
(* Properties *)

CallReturned == pc = "returned"

IsPath == file_path.tag = "str"

Events == Range(trace)

Backends == {"_parse_pdf", "_parse_ffmpeg", "_parse_txt"}

BackendCalls == SelectSeq(trace, LAMBDA e : e \in Backends)

\* The extension of the path of the call, and the categories that hold it.
CallExt == suffix(file_path.val)

CallCategories == LET ext == CallExt IN {c \in Categories : ext \in parsable_exts[c]}

InCategory(c) == c \in CallCategories

InMedia == CallCategories \cap {"ffmpeg_audio", "ffmpeg_image", "ffmpeg_video"} # {}

InRegistry == CallCategories # {}

\* A failure in the chain of the call: the argument is no path, or the
\* collaborator the backend turned to raised.
FailureInChain ==
    \/ ~IsPath
    \/ /\ "open" \in Events
       /\ ~world.text.opens \/ ~ValidUtf8(world.text.bytes)
    \/ /\ "fitz.open" \in Events
       /\ \/ ~world.doc.opens
          \/ ~world.doc.needs_pass /\ world.doc.to_markdown["0"].tag = "error"
    \/ /\ "ffprobe" \in Events
       /\ \/ ~world.probe.runs
          \/ world.probe.streams.tag = "error"
          \/ world.probe.streams.val = <<>>
    \/ /\ "Image.open" \in Events
       /\ ~world.exif.opens \/ ~world.exif.has_exif \/ world.exif.gps.tag = "error"

\* C1: whatever fails in the chain of a call (extension resolution, a
\* collaborator inside a backend), no exception leaves parse_file_contents
\* and the call returns None.
C1_NoExceptionEscapes ==
    CallReturned =>
        /\ ~raised
        /\ FailureInChain => result.tag = "None"

C1_Witness ==
    /\ CallReturned
    /\ "fitz.open" \in Events
    /\ world.doc.opens /\ ~world.doc.needs_pass /\ world.doc.to_markdown["0"].tag = "error"
    /\ ~raised
    /\ result.tag = "None"

\* C2: a path whose suffix, compared exactly as written, is in no category
\* of the registry gets None, and no backend is called.
C2_UnregisteredIsNone ==
    (CallReturned /\ IsPath /\ ~InRegistry) =>
        /\ result.tag = "None"
        /\ BackendCalls = <<>>

\* the suffix differs from a registered extension only by its case
C2_Witness ==
    /\ CallReturned /\ IsPath
    /\ CallExt = <<".", "A">>
    /\ ~InRegistry
    /\ parsable_exts["text"] = {<<".", "a">>}
    /\ result.tag = "None"
    /\ trace = <<>>

\* The backend the precedence document > media > text gives the extension.
ByPrecedence ==
    LET held == CallCategories
    IN  IF "mupdf" \in held THEN "_parse_pdf"
        ELSE IF held \cap {"ffmpeg_audio", "ffmpeg_image", "ffmpeg_video"} # {} THEN "_parse_ffmpeg"
        ELSE "_parse_txt"

\* C3: a path whose extension is in the registry has exactly one backend
\* called, the one of the highest-precedence category that holds the
\* extension: document, then media, then text.
C3_OneBackendByPrecedence ==
    (CallReturned /\ IsPath) =>
        LET expected == ByPrecedence
        IN  InRegistry => /\ Len(BackendCalls) = 1
                          /\ BackendCalls[1] = expected

\* an extension in the media and the text categories goes to the media backend
C3_Witness ==
    /\ CallReturned /\ IsPath
    /\ InCategory("text") /\ InCategory("ffmpeg_video") /\ ~InCategory("mupdf")
    /\ BackendCalls = <<"_parse_ffmpeg">>

TextRead ==
    /\ CallReturned
    /\ "_parse_txt" \in Events
    /\ world.text.opens
    /\ ValidUtf8(world.text.bytes)

\* C4 as stated: a text file of valid UTF-8 bytes is returned exactly as its
\* decoded content, carriage returns included.
C4_RoundTripIdentity ==
    TextRead => /\ result.tag = "str"
                /\ result.val = Decode(world.text.bytes)

\* C4 amended: the result is the decoded content with every "\r\n" and every
\* other "\r" turned into "\n"; it holds no "\r", and it is the decoded
\* content itself when that holds no "\r".
C4_NewlinesTranslated ==
    TextRead =>
        /\ result.tag = "str"
        /\ result.val = UniversalNewlines(Decode(world.text.bytes))
        /\ "\r" \notin Range(result.val)
        /\ "\r" \notin Range(Decode(world.text.bytes)) => result.val = Decode(world.text.bytes)

C4_Witness ==
    /\ TextRead
    /\ world.text.bytes = <<65, 13, 10>>
    /\ result.val = <<"A", "\n">>

Probed ==
    /\ CallReturned
    /\ "ffprobe" \in Events
    /\ world.probe.runs
    /\ world.probe.streams.tag = "tuple"

StreamCount == Len(world.probe.streams.val)

\* The four audio fields of the first stream, "" for a missing one.
AudioOf(stream) ==
    Tuple(<<DefaultStrItem(stream, "title"), DefaultStrItem(stream, "album"),
            DefaultStrItem(stream, "genre"), DefaultStrItem(stream, "duration")>>)

IsAudioOnlyResult ==
    /\ result.tag = "tuple"
    /\ Len(result.val) = 2
    /\ result.val[1].tag = "None"

\* C5: when the probe reports exactly one stream the result is (None, the
\* four audio fields of that stream), and the audio-only form is chosen by
\* the number of streams: more than one stream does not give it.
C5_AudioOnlyByStreamCount ==
    Probed =>
        /\ StreamCount = 1 =>
              /\ IsAudioOnlyResult
              /\ result.val[2] = AudioOf(world.probe.streams.val[1])
        /\ StreamCount > 1 => ~IsAudioOnlyResult

\* C6: when the probe reports more than one stream the result is a pair of
\* the video metadata (with "dimensions" = "<width>x<width>") and the audio
\* metadata of the first stream.
C6_VideoPair ==
    (Probed /\ StreamCount > 1) =>
        /\ result.tag = "tuple"
        /\ Len(result.val) = 2
        /\ result.val[1].tag = "dict"
        /\ DOMAIN result.val[1].val =
              {"title", "frame_rate", "director", "duration", "dimensions"}
        /\ result.val[1].val["dimensions"].val =
              LET width == PyStr(Get(world.probe.streams.val[1], "width")).val
              IN  width \o <<"x">> \o width
        /\ result.val[2] = AudioOf(world.probe.streams.val[1])

\* "" for a missing tag, the string of the tag's value otherwise
TagOrEmpty(tags, k) == IF k \in DOMAIN tags THEN PyStr(tags[k]) ELSE Str(<<>>)

\* C7: an image whose EXIF tags are read gives one mapping with the keys
\* dimensions, gps_coordinates, camera_model and date_taken; camera_model
\* and date_taken are the Model and DateTime tags, "" when missing.
C7_ImageMapping ==
    (/\ CallReturned
     /\ "Image.open" \in Events
     /\ world.exif.opens /\ world.exif.has_exif
     /\ world.exif.gps.tag # "error") =>
        /\ result.tag = "dict"
        /\ DOMAIN result.val = {"dimensions", "gps_coordinates", "camera_model", "date_taken"}
        /\ result.val["camera_model"] = TagOrEmpty(world.exif.tags, "Model")
        /\ result.val["date_taken"] = TagOrEmpty(world.exif.tags, "DateTime")

DocumentOpened ==
    /\ CallReturned
    /\ "_parse_pdf" \in Events
    /\ world.doc.opens

\* C8: a document that needs a password gives None and the converter is not
\* called; one that needs none gives exactly what the converter returns for
\* margins = 0.
C8_PasswordOrMarkdown ==
    DocumentOpened =>
        /\ world.doc.needs_pass => (result.tag = "None" /\ "to_markdown" \notin Events)
        /\ (~world.doc.needs_pass /\ world.doc.to_markdown["0"].tag # "error") =>
              /\ "to_markdown" \in Events
              /\ result.tag = "str"
              /\ result = world.doc.to_markdown["0"]

\* the converter answers differently for other margins
C8_Witness ==
    /\ DocumentOpened
    /\ ~world.doc.needs_pass
    /\ world.doc.to_markdown["0"] = Str(<<"#">>)
    /\ world.doc.to_markdown["default"] = Str(<<>>)
    /\ result = Str(<<"#">>)

\* C9: every handle a call opens is released by the time the call returns:
\* no handle is ever open between calls.
C9_NoOpenHandles == open_handles = {}

\* C10: neither log-and-return-None branch is ever taken: not the
\* "not supported for parsing" branch of parse_file_contents, not the
\* "Failed to parse file" branch of _parse_ffmpeg.
C10_LogBranchesDead ==
    /\ "logger.error" \notin Events
    /\ "logging.error" \notin Events

\* an extension only the image category holds passes both media tests
C10_Witness ==
    /\ CallReturned /\ IsPath
    /\ InCategory("ffmpeg_image")
    /\ \A c \in Categories \ {"ffmpeg_image"} : ~InCategory(c)
    /\ trace = <<"_parse_ffmpeg", "Image.open">>

====
